---- MODULE Spec2Model ----
(***************************************************************************)
(* Model of src/app/seed/route.ts: the GET route handler that seeds the    *)
(* users, customers, invoices and revenue tables through the one           *)
(* module-level database client.                                           *)
(*                                                                         *)
(* The client sends the statements handed to it one at a time, in the      *)
(* order they were handed over (queue).  The database keeps the committed  *)
(* contents and the contents seen on the connection (working), which       *)
(* differ while a transaction is open.  Each GET invocation is an async    *)
(* function: pc/step say which await it is suspended at, hashing which     *)
(* bcrypt tasks of its seedUsers are still running.                        *)
(***************************************************************************)
EXTENDS Integers, Sequences, FiniteSets, Bags, TLC

\* ---------------------------------------------------------------- bounds
NUsers == 2
NCustomers == 1
NInvoices == 1
NRevenue == 1
MaxOverlap == 2
MaxInvocations == 2
NSalts == 1

\* bcrypt.hash(user.password, 10)
Cost == 10

Users == 1..NUsers
Customers == 1..NCustomers
Invoices == 1..NInvoices
Revenue == 1..NRevenue
Runs == 1..MaxOverlap
Salts == 1..NSalts

VARIABLES
    queue,      \* statements handed to the client and not yet executed
    committed,  \* the database's durable contents
    working,    \* the contents as seen on the connection
    tx,         \* "none" | "open" | "aborted": the connection's transaction
    owner,      \* the run whose BEGIN opened the transaction, 0 if none
    pc,         \* per run: the await the handler is suspended at
    step,       \* per run: the table being seeded
    acked,      \* per run and table: row inserts that resolved
    hashing,    \* per run and user: the bcrypt task
    response,   \* per run: what the caller received
    issued,     \* per run: the statements it handed to the client, in order
    before,     \* per run: committed contents when the invocation began
    started,    \* number of GET invocations so far
    outcomes,   \* the responses given so far, in order
    initial,    \* the database's contents before the first invocation
    last        \* the statement the connection executed last

vars == <<queue, committed, working, tx, owner, pc, step, acked, hashing,
          response, issued, before, started, outcomes, initial, last>>

\* ------------------------------------------------------------- fixtures
\* ../lib/placeholder-data: unique ids, unique emails, unique months; every
\* invoice's customer_id is the id of a customer.
UserId(u) == <<"user", u>>
UserEmail(u) == u
Password(u) == <<u, u + 1, u + 2>>
CustomerId(c) == <<"customer", c>>
CustomerOf(i) == CustomerId(((i - 1) % NCustomers) + 1)

Tables == {"users", "customers", "invoices", "revenue"}
Objects == Tables \cup {"uuid-ossp"}

Keys(tbl) ==
    CASE tbl = "users" -> Users
      [] tbl = "customers" -> Customers
      [] tbl = "invoices" -> Invoices
      [] tbl = "revenue" -> Revenue

\* ------------------------------------------------------------- hashing
RECURSIVE Mix(_, _)
Mix(pw, acc) ==
    IF pw = <<>> THEN acc ELSE Mix(Tail(pw), (acc * 31 + Head(pw)) % 997)

\* bcrypt.hash: cost, salt and the digest of the salted plaintext
Hash(pw, salt) == <<Cost, salt, Mix(pw, salt)>>

\* bcrypt.compare: recompute with the salt and cost the hash carries
Compare(pw, h) == Len(h) = 3 /\ h = <<h[1], h[2], Mix(pw, h[2])>>

\* ----------------------------------------------------------- statements
Stmt(r, op, tbl, key, pw) ==
    [run |-> r, op |-> op, tbl |-> tbl, key |-> key, pw |-> pw]

Begin(r) == Stmt(r, "BEGIN", "-", 0, <<>>)
Commit(r) == Stmt(r, "COMMIT", "-", 0, <<>>)
Rollback(r) == Stmt(r, "ROLLBACK", "-", 0, <<>>)
CreateExtension(r, tbl) == Stmt(r, "EXT", tbl, 0, <<>>)
CreateTable(r, tbl) == Stmt(r, "CREATE", tbl, 0, <<>>)

\* VALUES (..., ${hashedPassword}); the variant passes user.password
PlainUserPassword(u, hashed) == Password(u)
UserPassword(u, hashed) == hashed

InsertUser(r, u, hashed) == Stmt(r, "INSERT", "users", u, UserPassword(u, hashed))
InsertRow(r, tbl, k) == Stmt(r, "INSERT", tbl, k, <<>>)

\* what the log of issued statements keeps of a statement
Tag(s) == <<s.op, s.tbl, s.key>>
Tags(ss) == [n \in DOMAIN ss |-> Tag(ss[n])]

RECURSIVE InsertAll(_, _, _)
InsertAll(r, tbl, k) ==
    IF k > Cardinality(Keys(tbl)) THEN <<>>
    ELSE <<InsertRow(r, tbl, k)>> \o InsertAll(r, tbl, k + 1)

\* ------------------------------------------------------------- database
\* A table is a bag of rows: it has no order, and nothing but a constraint
\* keeps it from holding the same values twice.
Empty == [schema |-> {}, users |-> EmptyBag, customers |-> EmptyBag,
          invoices |-> EmptyBag, revenue |-> EmptyBag]

Ids(rows) == {row.id : row \in BagToSet(rows)}

\* uuid_generate_v4(): an id no row on the connection holds
Generated(w) ==
    {id[2] : id \in {i \in Ids(w.users) \cup Ids(w.customers) \cup Ids(w.invoices) :
                       i[1] = "uuid"}}
FreshId(w) == CHOOSE n \in 1..(Cardinality(Generated(w)) + 1) : n \notin Generated(w)
Emails(rows) == {row.email : row \in BagToSet(rows)}
Months(rows) == {row.month : row \in BagToSet(rows)}

\* INSERT INTO customers (id, ...) VALUES (${customer.id}, ...); the variant
\* leaves the id to the column's default
GeneratedCustomerRowId(c, gen) == <<"uuid", gen>>
CustomerRowId(c, gen) == CustomerId(c)

\* INSERT INTO invoices (customer_id, amount, status, date): no id column,
\* so the row takes DEFAULT uuid_generate_v4(); the variant keys the row by
\* its fixture
FixtureInvoiceRowId(i, gen) == <<"invoice", i>>
InvoiceRowId(i, gen) == <<"uuid", gen>>

\* VALUES (${invoice.customer_id}, ...)
InvoiceCustomerId(i, gen) == CustomerOf(i)

UserRow(s) ==
    [id |-> UserId(s.key), name |-> s.key, email |-> UserEmail(s.key),
     password |-> s.pw]
CustomerRow(s, gen) ==
    [id |-> CustomerRowId(s.key, gen), name |-> s.key, email |-> s.key,
     image_url |-> s.key]
InvoiceRow(s, gen) ==
    [id |-> InvoiceRowId(s.key, gen),
     customer_id |-> InvoiceCustomerId(s.key, gen), amount |-> s.key]
RevenueRow(s) == [month |-> s.key, revenue |-> s.key]

NewRow(s, gen) ==
    CASE s.tbl = "users" -> UserRow(s)
      [] s.tbl = "customers" -> CustomerRow(s, gen)
      [] s.tbl = "invoices" -> InvoiceRow(s, gen)
      [] s.tbl = "revenue" -> RevenueRow(s)

\* ON CONFLICT (id) / ON CONFLICT (month): the arbiter finds a row
Conflict(s, w, gen) ==
    IF s.tbl = "revenue"
    THEN NewRow(s, gen).month \in Months(w.revenue)
    ELSE NewRow(s, gen).id \in Ids(w[s.tbl])

\* DO NOTHING: the stored rows stay as they are; the variant is DO UPDATE
RowKey(tbl, row) == IF tbl = "revenue" THEN row.month ELSE row.id
Kept(tbl, rows, row) ==
    {old \in BagToSet(rows) : RowKey(tbl, old) # RowKey(tbl, row)}
Overwrite(tbl, rows, row) ==
    [old \in Kept(tbl, rows, row) |-> rows[old]] (+) SetToBag({row})
OnConflict(tbl, rows, row) == rows

\* email TEXT NOT NULL UNIQUE: a violation no ON CONFLICT (id) absorbs
UniqueViolation(s, w, gen) ==
    /\ s.tbl = "users"
    /\ ~Conflict(s, w, gen)
    /\ UserEmail(s.key) \in Emails(w.users)

\* Whether the server executes s without an error.
Accepts(s, w, t, gen) ==
    CASE s.op \in {"COMMIT", "ROLLBACK"} -> TRUE
      [] t = "aborted" -> FALSE
      [] s.op = "BEGIN" -> TRUE
      [] s.op = "EXT" -> TRUE
      [] s.op = "CREATE" ->
            \* DEFAULT uuid_generate_v4() needs the extension
            s.tbl \in w.schema \/ s.tbl = "revenue" \/ "uuid-ossp" \in w.schema
      [] s.op = "INSERT" -> s.tbl \in w.schema /\ ~UniqueViolation(s, w, gen)

\* The contents after the server executed s without an error.
Apply(s, w, gen) ==
    CASE s.op = "EXT" -> [w EXCEPT !.schema = @ \cup {"uuid-ossp"}]
      [] s.op = "CREATE" -> [w EXCEPT !.schema = @ \cup {s.tbl}]
      [] s.op = "INSERT" ->
            IF Conflict(s, w, gen)
            THEN [w EXCEPT ![s.tbl] = OnConflict(s.tbl, @, NewRow(s, gen))]
            ELSE [w EXCEPT ![s.tbl] = @ (+) SetToBag({NewRow(s, gen)})]
      [] OTHER -> w

\* --------------------------------------------------------------- server
\* The connection executes statement s.  fault: the server answers with an
\* error whatever the data (no permission, timeout, out of space, ...).
\* An error inside a transaction aborts it: every later statement fails
\* until ROLLBACK, and COMMIT then rolls back and reports no error.  BEGIN
\* inside a transaction, COMMIT and ROLLBACK outside one only warn.  Outside
\* a transaction every statement commits by itself.
Ok(s, fault) == ~fault /\ Accepts(s, working, tx, FreshId(working))

WorkingAfter(s, ok) ==
    CASE s.op = "COMMIT" -> IF ok /\ tx = "open" THEN working ELSE committed
      [] s.op = "ROLLBACK" -> committed
      [] OTHER -> IF ok THEN Apply(s, working, FreshId(working)) ELSE working

TxAfter(s, ok) ==
    CASE s.op \in {"COMMIT", "ROLLBACK"} -> "none"
      [] s.op = "BEGIN" /\ ok /\ tx = "none" -> "open"
      [] ~ok /\ tx = "open" -> "aborted"
      [] OTHER -> tx

OwnerAfter(s, ok) ==
    CASE s.op \in {"COMMIT", "ROLLBACK"} -> 0
      [] s.op = "BEGIN" /\ ok /\ tx = "none" -> s.run
      [] OTHER -> owner

Server(s, ok) ==
    /\ working' = WorkingAfter(s, ok)
    /\ tx' = TxAfter(s, ok)
    /\ owner' = OwnerAfter(s, ok)
    /\ committed' = IF TxAfter(s, ok) = "none" THEN WorkingAfter(s, ok)
                    ELSE committed
    /\ last' = [run |-> s.run, op |-> s.op]

\* -------------------------------------------------------------- handler
\* await seedUsers(); await seedCustomers(); await seedInvoices();
\* await seedRevenue(); await client.sql`COMMIT`.  The variants swap
\* customers and invoices, and leave seedCustomers out.
SwappedStepAfter(tbl) ==
    CASE tbl = "users" -> "invoices"
      [] tbl = "invoices" -> "customers"
      [] tbl = "customers" -> "revenue"
      [] tbl = "revenue" -> "COMMIT"
SkipCustomersStepAfter(tbl) ==
    CASE tbl = "users" -> "invoices"
      [] tbl = "customers" -> "invoices"
      [] tbl = "invoices" -> "revenue"
      [] tbl = "revenue" -> "COMMIT"
StepAfter(tbl) ==
    CASE tbl = "users" -> "customers"
      [] tbl = "customers" -> "invoices"
      [] tbl = "invoices" -> "revenue"
      [] tbl = "revenue" -> "COMMIT"

\* The run is suspended on the result of s.  A row insert counts only
\* while the step's Promise.all is unsettled.
Awaited(r, s) ==
    IF s.op = "INSERT" THEN pc[r] = "rows" /\ step[r] = s.tbl
    ELSE pc[r] = s.op

\* What the handler does with the result of s: where it suspends next, the
\* statements it hands to the client, whether it starts the bcrypt tasks,
\* and its response.
Stay(r) == [pc |-> pc[r], step |-> step[r], emit |-> <<>>, hash |-> FALSE,
            resp |-> response[r]]

\* catch (error) { await client.sql`ROLLBACK`; ... }
Catch(r) == [Stay(r) EXCEPT !.pc = "ROLLBACK", !.emit = <<Rollback(r)>>]

\* first statement of the seeding function of tbl
Enter(r, tbl) ==
    CASE tbl = "COMMIT" -> [Stay(r) EXCEPT !.pc = "COMMIT", !.emit = <<Commit(r)>>]
      [] tbl = "revenue" ->
            [Stay(r) EXCEPT !.pc = "CREATE", !.step = tbl,
                            !.emit = <<CreateTable(r, tbl)>>]
      [] OTHER ->
            [Stay(r) EXCEPT !.pc = "EXT", !.step = tbl,
                            !.emit = <<CreateExtension(r, tbl)>>]

Continue(r, s, ok) ==
    CASE ~Awaited(r, s) -> Stay(r)
      [] s.op = "ROLLBACK" ->
            [Stay(r) EXCEPT !.pc = "done",
                            !.resp = IF ok THEN "error500" ELSE "unhandled"]
      [] ~ok -> Catch(r)
      [] s.op = "BEGIN" -> Enter(r, "users")
      [] s.op = "EXT" ->
            [Stay(r) EXCEPT !.pc = "CREATE", !.emit = <<CreateTable(r, s.tbl)>>]
      [] s.op = "CREATE" ->
            IF s.tbl = "users"
            THEN [Stay(r) EXCEPT !.pc = "rows", !.hash = TRUE]
            ELSE [Stay(r) EXCEPT !.pc = "rows", !.emit = InsertAll(r, s.tbl, 1)]
      [] s.op = "INSERT" ->
            IF acked[r][s.tbl] \cup {s.key} = Keys(s.tbl)
            THEN Enter(r, StepAfter(s.tbl))
            ELSE Stay(r)
      [] s.op = "COMMIT" -> [Stay(r) EXCEPT !.pc = "done", !.resp = "ok"]

\* ---------------------------------------------------------------- model
NoTasks == [u \in Users |-> "none"]

\* The database outlives the process: it is fresh, or holds the schema with
\* some of the fixture rows from earlier seeding (users hashed with a salt
\* of that time).
Rows(tbl, have) ==
    SetToBag({NewRow(Stmt(0, "INSERT", tbl, k,
                          IF tbl = "users" THEN Hash(Password(k), 0) ELSE <<>>),
                     0) : k \in have})

Seeded(have) ==
    [schema |-> Objects,
     users |-> Rows("users", IF have THEN Users ELSE {}),
     customers |-> Rows("customers", IF have THEN Customers ELSE {}),
     invoices |-> EmptyBag,
     revenue |-> Rows("revenue", IF have THEN Revenue ELSE {})]

Databases == {Empty, Seeded(FALSE), Seeded(TRUE)}

Init ==
    /\ queue = <<>>
    /\ committed \in Databases
    /\ working = committed
    /\ tx = "none"
    /\ owner = 0
    /\ pc = [r \in Runs |-> "idle"]
    /\ step = [r \in Runs |-> "none"]
    /\ acked = [r \in Runs |-> [t \in Tables |-> {}]]
    /\ hashing = [r \in Runs |-> NoTasks]
    /\ response = [r \in Runs |-> "none"]
    /\ issued = [r \in Runs |-> <<>>]
    /\ before = [r \in Runs |-> Empty]
    /\ started = 0
    /\ outcomes = <<>>
    /\ initial = committed
    /\ last = [run |-> 0, op |-> "none"]

\* export async function GET(): try { await client.sql`BEGIN`; ...
\* Nothing of an earlier invocation in slot r is left running.
Free(r) ==
    /\ pc[r] \in {"idle", "done"}
    /\ \A u \in Users : hashing[r][u] # "pending"
    /\ \A n \in DOMAIN queue : queue[n].run # r

GET(r) ==
    /\ started < MaxInvocations
    /\ Free(r)
    /\ \A q \in Runs : Free(q) => r <= q
    /\ started' = started + 1
    /\ pc' = [pc EXCEPT ![r] = "BEGIN"]
    /\ step' = [step EXCEPT ![r] = "none"]
    /\ acked' = [acked EXCEPT ![r] = [t \in Tables |-> {}]]
    /\ hashing' = [hashing EXCEPT ![r] = NoTasks]
    /\ response' = [response EXCEPT ![r] = "none"]
    /\ queue' = Append(queue, Begin(r))
    /\ issued' = [issued EXCEPT ![r] = <<Tag(Begin(r))>>]
    /\ before' = [before EXCEPT ![r] = committed]
    /\ UNCHANGED <<committed, working, tx, owner, outcomes, initial, last>>

\* The previous invocation and everything it dispatched have finished.
Quiescent ==
    /\ queue = <<>>
    /\ \A r \in Runs : pc[r] \in {"idle", "done"}
    /\ \A r \in Runs : \A u \in Users : hashing[r][u] # "pending"

NextGET(r) == Quiescent /\ GET(r)

\* bcrypt.hash resolves: the callback goes on to hand its INSERT to the
\* client, whether or not the Promise.all it belongs to has settled.
HashResolved(r, u, salt) ==
    /\ hashing[r][u] = "pending"
    /\ hashing' = [hashing EXCEPT ![r][u] = "settled"]
    /\ queue' = Append(queue, InsertUser(r, u, Hash(Password(u), salt)))
    /\ issued' = [issued EXCEPT ![r] = Append(@, Tag(InsertUser(r, u, <<>>)))]
    /\ UNCHANGED <<committed, working, tx, owner, pc, step, acked, response,
                   before, started, outcomes, initial, last>>

\* bcrypt.hash rejects: Promise.all rejects, if it has not settled yet, and
\* GET's catch runs.
HashRejected(r, u) ==
    /\ hashing[r][u] = "pending"
    /\ hashing' = [hashing EXCEPT ![r][u] = "settled"]
    /\ LET caught == pc[r] = "rows" /\ step[r] = "users"
           c == IF caught THEN Catch(r) ELSE Stay(r)
       IN /\ pc' = [pc EXCEPT ![r] = c.pc]
          /\ queue' = queue \o c.emit
          /\ issued' = [issued EXCEPT ![r] = @ \o Tags(c.emit)]
    /\ UNCHANGED <<committed, working, tx, owner, step, acked, response,
                   before, started, outcomes, initial, last>>

\* The connection executes the oldest statement and its promise settles:
\* the handler that awaits it runs on to its next await.
Execute(fault) ==
    /\ queue # <<>>
    /\ LET s == Head(queue)
           r == s.run
           ok == Ok(s, fault)
           c == Continue(r, s, ok)
       IN /\ Server(s, ok)
          /\ queue' = Tail(queue) \o c.emit
          /\ issued' = [issued EXCEPT ![r] = @ \o Tags(c.emit)]
          /\ pc' = [pc EXCEPT ![r] = c.pc]
          /\ step' = [step EXCEPT ![r] = c.step]
          /\ response' = [response EXCEPT ![r] = c.resp]
          /\ outcomes' = IF c.pc = "done" /\ pc[r] # "done"
                         THEN Append(outcomes, c.resp) ELSE outcomes
          /\ hashing' = IF c.hash
                        THEN [hashing EXCEPT ![r] = [u \in Users |-> "pending"]]
                        ELSE hashing
          /\ acked' = IF s.op = "INSERT" /\ ok /\ Awaited(r, s)
                      THEN [acked EXCEPT ![r][s.tbl] = @ \cup {s.key}]
                      ELSE acked
    /\ UNCHANGED <<before, started, initial>>

Tasks ==
    \/ \E r \in Runs, u \in Users, salt \in Salts : HashResolved(r, u, salt)
    \/ \E r \in Runs, u \in Users : HashRejected(r, u)
    \/ \E fault \in BOOLEAN : Execute(fault)

\* GET invocations one after the other
Next == (\E r \in Runs : NextGET(r)) \/ Tasks
Spec == Init /\ [][Next]_vars

\* GET invocations that may overlap
NextOverlap == (\E r \in Runs : GET(r)) \/ Tasks
SpecOverlap == Init /\ [][NextOverlap]_vars

\* ---------------------------------------------------------- vocabulary
RowsOf(db) == [t \in Tables |-> db[t]]
NoRows(db) == \A t \in Tables : db[t] = EmptyBag
Finished(r) == pc[r] = "done"
Succeeded(r) == Finished(r) /\ response[r] = "ok"
Failed(r) == Finished(r) /\ response[r] # "ok"
AllOk(os) == \A n \in DOMAIN os : os[n] = "ok"
Has(log, tag) == \E n \in DOMAIN log : log[n] = tag
Count(log, tag) == Cardinality({n \in DOMAIN log : log[n] = tag})
RollbackTag == Tag(Rollback(0))
CommitTag == Tag(Commit(0))

\* every statement of the run succeeded: all rows of all four steps and COMMIT
AllSucceeded(r) ==
    /\ \A t \in Tables : acked[r][t] = Keys(t)
    /\ Has(issued[r], CommitTag)
    /\ ~Has(issued[r], RollbackTag)

\* the fixture keys a keyed table holds
KeysIn(t, rows) ==
    IF t = "revenue" THEN Months(rows)
    ELSE {id[2] : id \in {i \in Ids(rows) : i[1] # "uuid"}}

OnePerKey(t, rows) ==
    /\ BagCardinality(rows) = Cardinality(Keys(t))
    /\ KeysIn(t, rows) = Keys(t)

KeyedTables == {"users", "customers", "revenue"}

\* ------------------------------------------------------------------ C1
\* C1: a GET run that fails leaves, once it and every statement it
\* dispatched have finished, the committed rows of the four tables exactly
\* as they were before the run.
C1_Atomicity ==
    \A r \in Runs :
        (Failed(r) /\ Free(r)) => RowsOf(committed) = RowsOf(before[r])

\* ------------------------------------------------------------------ C2
\* C2: from a database without rows, after each of two (or more) successive
\* successful runs the users, customers and revenue tables hold exactly one
\* row per fixture key, and a re-run adds no row to them.
C2_KeyedIdempotence ==
    \A r \in Runs :
        (Succeeded(r) /\ NoRows(initial) /\ AllOk(outcomes)) =>
            \A t \in KeyedTables :
                /\ OnePerKey(t, committed[t])
                /\ Len(outcomes) >= 2 => committed[t] = before[r][t]

C2_Witness ==
    /\ NoRows(initial)
    /\ outcomes = <<"ok", "ok">>
    /\ \E r \in Runs : Succeeded(r) /\ OnePerKey("users", before[r].users)

C4_ResponseContract ==
    \A r \in Runs :
        Finished(r) =>
            \/ response[r] = "ok" /\ AllSucceeded(r)
            \/ response[r] = "error500" /\ ~AllSucceeded(r)

\* ------------------------------------------------------------------ C5
\* C5: during and after any run, successful or failed, every row that was
\* committed when the run began is still there with the same column values.
C5_ExistingRowsKept ==
    \A r \in Runs :
        pc[r] # "idle" =>
            \A t \in Tables : before[r][t] \sqsubseteq committed[t]

C5_Witness ==
    \E r \in Runs :
        /\ Finished(r)
        /\ \A t \in KeyedTables : OnePerKey(t, before[r][t])
        /\ \A t \in KeyedTables : acked[r][t] = Keys(t)

\* ------------------------------------------------------------------ C6
\* C6: after a successful run every invoices row's customer_id is the id of
\* a row of the customers table.
C6_ReferentialSoundness ==
    \A r \in Runs :
        Succeeded(r) =>
            \A inv \in BagToSet(committed.invoices) :
                inv.customer_id \in Ids(committed.customers)

C6_Witness ==
    \E r \in Runs :
        /\ Succeeded(r)
        /\ NoRows(before[r])
        /\ BagCardinality(committed.invoices) = NInvoices

\* ------------------------------------------------------------------ C7
\* C7: after a successful run on a database without rows, every user
\* fixture's stored password verifies against the fixture's plaintext and is
\* not the plaintext; no INSERT INTO users handed to the client carries the
\* plaintext.
C7_PasswordStorage ==
    /\ \A r \in Runs :
           (Succeeded(r) /\ NoRows(before[r])) =>
               \A u \in Users :
                   \E row \in BagToSet(committed.users) :
                       /\ row.id = UserId(u)
                       /\ Compare(Password(u), row.password)
                       /\ row.password # Password(u)
    /\ \A n \in DOMAIN queue :
           (queue[n].op = "INSERT" /\ queue[n].tbl = "users") =>
               /\ queue[n].pw # Password(queue[n].key)
               /\ Compare(Password(queue[n].key), queue[n].pw)

C7_Witness ==
    \E r \in Runs :
        /\ Succeeded(r)
        /\ NoRows(before[r])
        /\ OnePerKey("users", committed.users)

\* ------------------------------------------------------------------ C8
\* C8: a run hands its statements to the client in the order BEGIN, users,
\* customers, invoices, revenue, COMMIT; a step's statements come only after
\* every insert of the steps before it succeeded; after ROLLBACK nothing of
\* a later step and no COMMIT follows; no statement is handed over twice;
\* ROLLBACK is handed over exactly once by a failing run, never by a
\* successful one.
Rank(tag) ==
    CASE tag[1] = "BEGIN" -> 0
      [] tag[1] = "COMMIT" -> 5
      [] tag[2] = "users" -> 1
      [] tag[2] = "customers" -> 2
      [] tag[2] = "invoices" -> 3
      [] tag[2] = "revenue" -> 4

Phase(tag) ==
    CASE tag[1] = "EXT" -> 0
      [] tag[1] = "CREATE" -> 1
      [] OTHER -> 2

StepOfRank(k) ==
    CASE k = 1 -> "users" [] k = 2 -> "customers" [] k = 3 -> "invoices"
      [] k = 4 -> "revenue"

NotRollback(tag) == tag # RollbackTag

\* each statement other than ROLLBACK is of the same or a later step, and
\* within a step of the same or a later phase, than the one before it
InOrder(log) ==
    LET s == SelectSeq(log, NotRollback) IN
    \A i \in 1..(Len(s) - 1) :
        \/ Rank(s[i]) < Rank(s[i + 1])
        \/ Rank(s[i]) = Rank(s[i + 1]) /\ Phase(s[i]) <= Phase(s[i + 1])

AfterPredecessors(r, log) ==
    \A j \in DOMAIN log :
        log[j] # RollbackTag =>
            \A k \in 1..4 : k < Rank(log[j]) =>
                acked[r][StepOfRank(k)] = Keys(StepOfRank(k))

AbortsAtFailure(log) ==
    \A i \in DOMAIN log :
        log[i] = RollbackTag =>
            \A j \in (i + 1)..Len(log) :
                /\ log[j][1] = "INSERT"
                /\ \E h \in 1..(i - 1) : Rank(log[h]) >= Rank(log[j])

C8_StepOrder ==
    \A r \in Runs :
        LET log == issued[r] IN
        /\ log # <<>> => log[1] = Tag(Begin(r))
        /\ InOrder(log)
        /\ AfterPredecessors(r, log)
        /\ AbortsAtFailure(log)
        /\ Cardinality({log[i] : i \in DOMAIN log}) = Len(log)
        /\ Count(log, RollbackTag) <= 1
        /\ Failed(r) => Count(log, RollbackTag) = 1
        /\ Succeeded(r) => Count(log, RollbackTag) = 0
        /\ pc[r] = "ROLLBACK" <=> (Has(log, RollbackTag) /\ ~Finished(r))

C8_Witness ==
    \E r \in Runs :
        /\ Failed(r)
        /\ Has(issued[r], Tag(InsertRow(r, "invoices", 1)))
        /\ ~Has(issued[r], Tag(CreateTable(r, "revenue")))
        /\ Count(issued[r], RollbackTag) = 1

\* ------------------------------------------------------------------ C9
\* C9: while the transaction a run's BEGIN opened is neither committed nor
\* rolled back, the connection executes statements of that run only.
C9_ExclusiveConnection == owner # 0 => last.run = owner

\* ----------------------------------------------------------------- C10
\* C10: the connection executes no INSERT of a run after that run's
\* ROLLBACK: every INSERT of a run falls inside its transaction.
C10_InsertsInsideTransaction ==
    last.op = "INSERT" =>
        ~(Finished(last.run) /\ Has(issued[last.run], RollbackTag))

====
